---- MODULE Spec2Model ----
(***************************************************************************)
(* A model of fj (src/src/main.rs): the OAuth device-flow login loop, the  *)
(* credential file github.toml, logout, and the status/open/branch         *)
(* operations that load the credential and fetch check runs.               *)
(*                                                                         *)
(* One CLI invocation is one run of main: Start picks the subcommand, the  *)
(* actions below are the statements of main in order, and the invocation   *)
(* ends in pc = "exit" with outcome "ok" (main returned Ok(())) or "err"   *)
(* (a `?` returned Err).  The credential file is the only state that       *)
(* survives from one invocation to the next.                               *)
(*                                                                         *)
(* Environment: the provider's poll responses, the browser launcher, git's *)
(* answers, the check-run endpoint and the user's selection are chosen     *)
(* nondeterministically.  The file system itself is taken to work (the     *)
(* xdg lookup, directory creation and the write do not fail with an I/O    *)
(* error); what the file system does contribute is whether github.toml     *)
(* exists and what it holds.  An interruption of the process is the action *)
(* Crash, which is part of SpecCrash only.                                 *)
(***************************************************************************)
EXTENDS Integers, Sequences, FiniteSets, TLC

\* main.rs:211  const RETRY_LIMIT: usize = 10;
RETRY_LIMIT == 10

\* device_codes.interval (main.rs:313) is provider input: 1..MaxInterval seconds.
\* Durations are plain integers: interval * 2^RETRY_LIMIT is far from the u64
\* seconds a Duration holds for any interval in this range.
MaxInterval == 2

Intervals == 1..MaxInterval

\* struct AuthConfig { access_token, token_type, scope }  (main.rs:213-218)
AuthConfig(t, ty, sc) == [access_token |-> t, token_type |-> ty, scope |-> sc]

\* The token responses (octocrab's OAuth) the provider may answer with.
OAuth ==
  { AuthConfig("gho_A", "bearer", <<"repo">>),
    AuthConfig("gho_B", "bearer", <<"repo", "gist">>) }

\* impl From<OAuth> for AuthConfig (main.rs:220-228): the three fields are copied.
FromOAuth(oauth) ==
  [access_token |-> oauth.access_token,
   token_type   |-> oauth.token_type,
   scope        |-> oauth.scope]

NoAuth == [access_token |-> "", token_type |-> "", scope |-> <<>>]

----------------------------------------------------------------------------
(* github.toml.  The file is a sequence of TOML lines; a line is           *)
(* [key, kind, val] with kind "str" (val = <<s>>) or "arr" (val = the      *)
(* strings of the array, in order).                                        *)

StrLine(k, s) == [key |-> k, kind |-> "str", val |-> <<s>>]

ArrLine(k, a) == [key |-> k, kind |-> "arr", val |-> a]

\* toml::to_string(&auth) (main.rs:323): one line per field, in field order.
toml_to_string(auth) ==
  << StrLine("access_token", auth.access_token),
     StrLine("token_type", auth.token_type),
     ArrLine("scope", auth.scope) >>

LinesOf(text, k) == {i \in 1..Len(text) : text[i].key = k}

FieldOk(text, k, kind) ==
  /\ Cardinality(LinesOf(text, k)) = 1
  /\ \A i \in LinesOf(text, k) : text[i].kind = kind

FieldVal(text, k) == text[CHOOSE i \in LinesOf(text, k) : TRUE].val

\* toml::from_str::<AuthConfig>(&config_file) (main.rs:235): every field must be
\* present exactly once (a duplicate key is a TOML error, a missing one a serde
\* error) and of the declared type; keys may come in any order and other keys
\* are ignored.
toml_from_str_ok(text) ==
  /\ FieldOk(text, "access_token", "str")
  /\ FieldOk(text, "token_type", "str")
  /\ FieldOk(text, "scope", "arr")

toml_from_str(text) ==
  [access_token |-> FieldVal(text, "access_token")[1],
   token_type   |-> FieldVal(text, "token_type")[1],
   scope        |-> FieldVal(text, "scope")]

NoFile == [exists |-> FALSE, data |-> <<>>]

\* A github.toml that is there but was not written by login (edited by hand):
\* it lacks token_type and scope.
EditedFile == [exists |-> TRUE, data |-> << StrLine("access_token", "gho_X") >>]

\* Variant, not the code: the file is opened without truncation.
FsCreateNoTruncate(f) == [exists |-> TRUE, data |-> f.data]

\* File::create inside fs::write (main.rs:323): create or truncate.
FsCreate(f) == [exists |-> TRUE, data |-> <<>>]

\* write_all inside fs::write (main.rs:323): the bytes go after what is there.
FsWriteAll(f, text) == [exists |-> TRUE, data |-> f.data \o text]

\* Variant, not the code: the file is emptied instead of removed.
FsRemoveTruncates(f) == [exists |-> TRUE, data |-> <<>>]

\* fs::remove_file (main.rs:293)
FsRemove(f) == NoFile

\* AuthConfig::load (main.rs:231-236): "Ok", "NotFound" (read_to_string failed)
\* or "Corrupt" (toml::from_str failed).
load(f) ==
  IF ~f.exists THEN "NotFound"
  ELSE IF toml_from_str_ok(f.data) THEN "Ok" ELSE "Corrupt"

loadValue(f) == IF load(f) = "Ok" THEN toml_from_str(f.data) ELSE NoAuth

\* The text of the Err of AuthConfig::load as debug! prints it (main.rs:183):
\* the io::Error of read_to_string or the toml error, which names what is
\* wrong with the file (here: a missing field) and does not quote its values.
load_error_text(f) ==
  IF ~f.exists THEN "No such file or directory (os error 2)"
  ELSE "missing field"

----------------------------------------------------------------------------
(* The values the program interpolates into what it prints.                *)

\* device_codes.user_code, device_codes.verification_uri (main.rs:307-310)
UserCode == "WDJB-MJHT"

VerificationUri == "https://github.com/login/device"

\* err of poll_once as println!("Error: {}", err) shows it (main.rs:336)
PollErrorText == "octocrab error"

\* config_file_path.display() (main.rs:321)
ConfigPath == "~/.config/fj/github.toml"

\* the picker's items (main.rs:277-280)
BranchNames == {"main", "feature"}

\* total_count, the ref name, the runs' names and conclusions
\* (print_check_runs, main.rs:141-169; Open, main.rs:251-267)
CheckRunsText == {"2", "main", "build", "lint", "success"}

----------------------------------------------------------------------------
VARIABLES
  file,           \* github.toml: [exists, data]
  file0,          \* github.toml as it was when this invocation started
  saved,          \* the AuthConfig of the last completed fs::write still in place
  loggedOut,      \* a logout removed a credential login had saved, and no login
                  \* has written the file since
  cmd,            \* CLICommand of this invocation, "none" before the first
  pc,             \* position in main
  outcome,        \* "running", "ok" (main returned Ok), "err", "crashed", "none"
  errCause,       \* which `?` returned the error
  interval,       \* device_codes.interval
  poll_duration,  \* main.rs:313
  polls,          \* poll_once calls made = iterations of the for loop begun
  responses,      \* what each poll returned, in order
  sleeps,         \* the durations passed to tokio::time::sleep, in order
  auth,           \* the AuthConfig in hand (from the token response, or loaded)
  browser,        \* webbrowser::open: "untried", "opened", "failed"
  loadResult,     \* AuthConfig::load in this invocation: "none" before it ran
  client,         \* the octocrab instance: "none", "anonymous", "token"
  commit,         \* git_ref_commit
  fetchResult,    \* list_check_runs_for_git_ref: "none" before it ran
  fetchAuth,      \* the access the check-run request was sent with
  reads,          \* reads of github.toml in this invocation
  writes,         \* fs::write calls on github.toml in this invocation
  out,            \* lines printed (stdout, stderr, debug log) in this invocation
  shown           \* the values interpolated into those lines ({} arguments)

vars == << file, file0, saved, loggedOut, cmd, pc, outcome, errCause, interval,
           poll_duration, polls, responses, sleeps, auth, browser, loadResult,
           client, commit, fetchResult, fetchAuth, reads, writes, out, shown >>

loginVars == << interval, poll_duration, polls, responses, sleeps, browser >>

runsVars == << loadResult, client, commit, fetchResult, fetchAuth >>

\* enum CLICommand (main.rs:32-42)
CLICommand == {"Status", "Open", "Branch", "Login", "Logout"}

RunsCommands == {"Status", "Open", "Branch"}

Init ==
  /\ file \in {NoFile, EditedFile}
  /\ file0 = file
  /\ saved = NoAuth
  /\ loggedOut = FALSE
  /\ cmd = "none"
  /\ pc = "exit"
  /\ outcome = "none"
  /\ errCause = "none"
  /\ interval = 0
  /\ poll_duration = 0
  /\ polls = 0
  /\ responses = <<>>
  /\ sleeps = <<>>
  /\ auth = NoAuth
  /\ browser = "untried"
  /\ loadResult = "none"
  /\ client = "none"
  /\ commit = "none"
  /\ fetchResult = "none"
  /\ fetchAuth = "none"
  /\ reads = 0
  /\ writes = 0
  /\ out = {}
  /\ shown = {}

\* match args.command (main.rs:244): where each subcommand begins.
Entry(c) ==
  CASE c = "Login"  -> "authenticate_as_device"
    [] c = "Logout" -> "remove_file"
    [] c = "Branch" -> "get_branches"
    [] OTHER        -> "get_ref_as_commit"

\* A new process: main.rs:240-244.  Nothing but the file is carried over.
Start ==
  /\ pc = "exit"
  /\ \E c \in CLICommand :
       /\ cmd' = c
       /\ pc' = Entry(c)
  /\ outcome' = "running"
  /\ errCause' = "none"
  /\ file0' = file
  /\ interval' = 0
  /\ poll_duration' = 0
  /\ polls' = 0
  /\ responses' = <<>>
  /\ sleeps' = <<>>
  /\ auth' = NoAuth
  /\ browser' = "untried"
  /\ loadResult' = "none"
  /\ client' = "none"
  /\ commit' = "none"
  /\ fetchResult' = "none"
  /\ fetchAuth' = "none"
  /\ reads' = 0
  /\ writes' = 0
  /\ out' = {}
  /\ shown' = {}
  /\ UNCHANGED << file, saved, loggedOut >>

\* `?` on an Err: main returns it.
Fail(cause) ==
  /\ pc' = "exit"
  /\ outcome' = "err"
  /\ errCause' = cause

\* main falls through to Ok(()) (main.rs:347).
ReturnOk ==
  /\ pc' = "exit"
  /\ outcome' = "ok"
  /\ UNCHANGED errCause

----------------------------------------------------------------------------
(* CLICommand::Login, main.rs:296-344                                      *)

\* main.rs:297-310: build the client, authenticate_as_device(...)?, print the
\* user code and the verification URI.
LoginRequestCodes ==
  /\ pc = "authenticate_as_device"
  /\ \/ /\ \E i \in Intervals : interval' = i
        /\ out' = out \cup {"Please enter the code"}
        /\ shown' = shown \cup {UserCode, VerificationUri}
        /\ pc' = "webbrowser_open"
        /\ UNCHANGED << outcome, errCause >>
     \/ /\ Fail("authenticate_as_device")
        /\ UNCHANGED << interval, out, shown >>
  /\ UNCHANGED << file, file0, saved, loggedOut, cmd, poll_duration, polls, responses,
                  sleeps, auth, browser, reads, writes >>
  /\ UNCHANGED runsVars

\* main.rs:311-313: webbrowser::open(&verification_uri)?; then
\* poll_duration = Duration::from_secs(device_codes.interval).
LoginOpenBrowser ==
  /\ pc = "webbrowser_open"
  /\ \/ /\ browser' = "opened"
        /\ poll_duration' = interval
        /\ pc' = "poll_once"
        /\ UNCHANGED << outcome, errCause >>
     \/ /\ browser' = "failed"
        /\ Fail("webbrowser_open")
        /\ UNCHANGED poll_duration
  /\ UNCHANGED << file, file0, saved, loggedOut, cmd, interval, polls, responses, sleeps,
                  auth, reads, writes, out, shown >>
  /\ UNCHANGED runsVars

\* Variant, not the code: the range 0..=RETRY_LIMIT.
LoopGuardInclusive(n) == n <= RETRY_LIMIT

\* for _ in 0..RETRY_LIMIT (main.rs:315): another iteration is begun.
LoopGuard(n) == n < RETRY_LIMIT

\* One iteration begins with device_codes.poll_once(...) (main.rs:316).
Polled(r) ==
  /\ pc = "poll_once"
  /\ LoopGuard(polls)
  /\ polls' = polls + 1
  /\ responses' = Append(responses, r)

\* Variant, not the code: the pending arm backs off as the error arm does.
PollPendingBacksOff ==
  /\ Polled("Pending")
  /\ sleeps' = Append(sleeps, poll_duration)
  /\ poll_duration' = poll_duration * 2
  /\ UNCHANGED << file, file0, saved, loggedOut, cmd, pc, outcome, errCause, interval,
                  auth, browser, reads, writes, out, shown >>
  /\ UNCHANGED runsVars

\* main.rs:328-330  Ok(Either::Right(Continue::AuthorizationPending))
PollPending ==
  /\ Polled("Pending")
  /\ sleeps' = Append(sleeps, poll_duration)
  /\ UNCHANGED << file, file0, saved, loggedOut, cmd, pc, outcome, errCause, interval,
                  poll_duration, auth, browser, reads, writes, out, shown >>
  /\ UNCHANGED runsVars

\* Variant, not the code: the slow-down arm sleeps before it doubles.
PollSlowDownSleeps ==
  /\ Polled("SlowDown")
  /\ sleeps' = Append(sleeps, poll_duration)
  /\ poll_duration' = poll_duration * 2
  /\ UNCHANGED << file, file0, saved, loggedOut, cmd, pc, outcome, errCause,
                  interval, auth, browser, reads, writes, out, shown >>
  /\ UNCHANGED runsVars

\* Variant, not the code: the slow-down arm doubles and then sleeps.
PollSlowDownWaits ==
  /\ Polled("SlowDown")
  /\ poll_duration' = poll_duration * 2
  /\ sleeps' = Append(sleeps, poll_duration')
  /\ UNCHANGED << file, file0, saved, loggedOut, cmd, pc, outcome, errCause, interval,
                  auth, browser, reads, writes, out, shown >>
  /\ UNCHANGED runsVars

\* Variant, not the code: slow-down adds the interval instead of doubling.
PollSlowDownAdds ==
  /\ Polled("SlowDown")
  /\ poll_duration' = poll_duration + interval
  /\ UNCHANGED << file, file0, saved, loggedOut, cmd, pc, outcome, errCause, interval,
                  sleeps, auth, browser, reads, writes, out, shown >>
  /\ UNCHANGED runsVars

\* Variant, not the code: a slow-down response does not use up an attempt.
PollSlowDownFree ==
  /\ pc = "poll_once"
  /\ LoopGuard(polls)
  /\ responses' = Append(responses, "SlowDown")
  /\ UNCHANGED polls
  /\ poll_duration' = poll_duration * 2
  /\ UNCHANGED << file, file0, saved, loggedOut, cmd, pc, outcome, errCause, interval,
                  sleeps, auth, browser, reads, writes, out, shown >>
  /\ UNCHANGED runsVars

\* main.rs:331-334  Ok(Either::Right(Continue::SlowDown))
PollSlowDown ==
  /\ Polled("SlowDown")
  /\ poll_duration' = poll_duration * 2
  /\ UNCHANGED << file, file0, saved, loggedOut, cmd, pc, outcome, errCause, interval,
                  sleeps, auth, browser, reads, writes, out, shown >>
  /\ UNCHANGED runsVars

\* Variant, not the code: the error arm doubles before it sleeps.
PollErrorDoublesFirst ==
  /\ Polled("Error")
  /\ out' = out \cup {"Error: {err}", "Retrying in {n} seconds"}
  /\ shown' = shown \cup {PollErrorText, ToString(poll_duration)}
  /\ sleeps' = Append(sleeps, poll_duration * 2)
  /\ poll_duration' = poll_duration * 2
  /\ UNCHANGED << file, file0, saved, loggedOut, cmd, pc, outcome, errCause,
                  interval, auth, browser, reads, writes >>
  /\ UNCHANGED runsVars

\* Variant, not the code: the error arm returns the error.
PollErrorAborts ==
  /\ Polled("Error")
  /\ out' = out \cup {"Error: {err}", "Retrying in {n} seconds"}
  /\ shown' = shown \cup {PollErrorText, ToString(poll_duration)}
  /\ Fail("poll_once")
  /\ UNCHANGED << file, file0, saved, loggedOut, cmd, interval, poll_duration,
                  sleeps, auth, browser, reads, writes >>
  /\ UNCHANGED runsVars

\* main.rs:335-341  Err(err)
PollError ==
  /\ Polled("Error")
  /\ out' = out \cup {"Error: {err}", "Retrying in {n} seconds"}
  /\ shown' = shown \cup {PollErrorText, ToString(poll_duration)}
  /\ sleeps' = Append(sleeps, poll_duration)
  /\ poll_duration' = poll_duration * 2
  /\ UNCHANGED << file, file0, saved, loggedOut, cmd, pc, outcome, errCause, interval,
                  auth, browser, reads, writes >>
  /\ UNCHANGED runsVars

\* Variant, not the code: the AuthConfig is logged with {:?} next to the path.
PollSuccessLogsAuth ==
  /\ Polled("Success")
  /\ \E oauth \in OAuth : auth' = FromOAuth(oauth)
  /\ out' = out \cup {"debug: config path is {path}"}
  /\ shown' = shown \cup {ConfigPath, auth'.access_token}
  /\ file' = FsCreate(file)
  /\ saved' = NoAuth
  /\ loggedOut' = FALSE
  /\ writes' = writes + 1
  /\ pc' = "fs_write"
  /\ UNCHANGED << file0, cmd, outcome, errCause, interval, poll_duration,
                  sleeps, browser, reads >>
  /\ UNCHANGED runsVars

\* main.rs:317-323  Ok(Either::Left(auth)): the config path is found, logged,
\* the AuthConfig built and serialized, and fs::write opens the file.
PollSuccess ==
  /\ Polled("Success")
  /\ \E oauth \in OAuth : auth' = FromOAuth(oauth)
  /\ out' = out \cup {"debug: config path is {path}"}
  /\ shown' = shown \cup {ConfigPath}
  /\ file' = FsCreate(file)
  /\ saved' = NoAuth
  /\ loggedOut' = FALSE
  /\ writes' = writes + 1
  /\ pc' = "fs_write"
  /\ UNCHANGED << file0, cmd, outcome, errCause, interval, poll_duration,
                  sleeps, browser, reads >>
  /\ UNCHANGED runsVars

\* Variant, not the code: no break after the save, the loop goes on.
LoginSaveNoBreak ==
  /\ pc = "fs_write"
  /\ file' = FsWriteAll(file, toml_to_string(auth))
  /\ saved' = auth
  /\ out' = out \cup {"Successfully logged in!"}
  /\ UNCHANGED shown
  /\ pc' = "poll_once"
  /\ UNCHANGED << file0, loggedOut, cmd, outcome, errCause, interval,
                  poll_duration, polls, responses, sleeps, auth, browser, reads,
                  writes >>
  /\ UNCHANGED runsVars

\* main.rs:323-326: fs::write puts the text in the file and returns; "Successfully
\* logged in!" is printed; break leaves the loop and main returns Ok(()).
LoginSave ==
  /\ pc = "fs_write"
  /\ file' = FsWriteAll(file, toml_to_string(auth))
  /\ saved' = auth
  /\ out' = out \cup {"Successfully logged in!"}
  /\ UNCHANGED shown
  /\ ReturnOk
  /\ UNCHANGED << file0, loggedOut, cmd, interval, poll_duration, polls,
                  responses, sleeps, auth, browser, reads, writes >>
  /\ UNCHANGED runsVars

\* Variant, not the code: running out of attempts is returned as an error.
LoopExhaustedFails ==
  /\ pc = "poll_once"
  /\ ~LoopGuard(polls)
  /\ Fail("retry limit")
  /\ UNCHANGED << file, file0, saved, loggedOut, cmd, interval, poll_duration,
                  polls, responses, sleeps, auth, browser, reads, writes, out, shown >>
  /\ UNCHANGED runsVars

\* main.rs:315, 343-347: the range is used up; main returns Ok(()).
LoopExhausted ==
  /\ pc = "poll_once"
  /\ ~LoopGuard(polls)
  /\ ReturnOk
  /\ UNCHANGED << file, file0, saved, loggedOut, cmd, interval, poll_duration, polls,
                  responses, sleeps, auth, browser, reads, writes, out, shown >>
  /\ UNCHANGED runsVars

Login ==
  \/ LoginRequestCodes
  \/ LoginOpenBrowser
  \/ PollPending
  \/ PollSlowDown
  \/ PollError
  \/ PollSuccess
  \/ LoginSave
  \/ LoopExhausted

----------------------------------------------------------------------------
(* CLICommand::Logout, main.rs:290-295                                     *)

\* Variant, not the code: a missing file is not an error for logout.
LogoutIgnoresMissing ==
  /\ pc = "remove_file"
  /\ file' = FsRemove(file)
  /\ saved' = NoAuth
  /\ loggedOut' = (saved # NoAuth)
  /\ out' = out \cup {"Successfully logged out"}
  /\ UNCHANGED shown
  /\ ReturnOk
  /\ UNCHANGED << file0, cmd, auth, reads, writes >>
  /\ UNCHANGED loginVars
  /\ UNCHANGED runsVars

\* place_config_file gives the path; fs::remove_file(&path)? fails when there
\* is no file; otherwise "Successfully logged out" and Ok(()).
Logout ==
  /\ pc = "remove_file"
  /\ \/ /\ file.exists
        /\ file' = FsRemove(file)
        /\ saved' = NoAuth
        /\ loggedOut' = (saved # NoAuth)
        /\ out' = out \cup {"Successfully logged out"}
        /\ UNCHANGED shown
        /\ ReturnOk
     \/ /\ ~file.exists
        /\ Fail("remove_file")
        /\ UNCHANGED << file, saved, loggedOut, out, shown >>
  /\ UNCHANGED << file0, cmd, auth, reads, writes >>
  /\ UNCHANGED loginVars
  /\ UNCHANGED runsVars

----------------------------------------------------------------------------
(* get_runs_for_ref (main.rs:171-208) and its callers Status, Open, Branch *)

\* CLICommand::Branch, main.rs:274-288: Git::new(...)?, get_branches()?, the
\* picker; a selected branch goes on to get_runs_for_ref.
BranchSelect ==
  /\ pc = "get_branches"
  /\ \/ /\ pc' = "get_ref_as_commit"
        /\ shown' = shown \cup BranchNames
        /\ UNCHANGED << outcome, errCause, out >>
     \/ /\ out' = out \cup {"No branch selected"}
        /\ shown' = shown \cup BranchNames
        /\ ReturnOk
     \/ /\ Fail("get_branches")
        /\ UNCHANGED << out, shown >>
  /\ UNCHANGED << file, file0, saved, loggedOut, cmd, auth, reads, writes >>
  /\ UNCHANGED loginVars
  /\ UNCHANGED runsVars

\* Git::get_ref_as_commit (main.rs:93-104): git rev-parse --short <ref>; the exit
\* status is not looked at, the trimmed stdout is the result.  For a ref that
\* does not exist git prints nothing on stdout.
get_ref_as_commit(refExists) == IF refExists THEN "abc123f" ELSE ""

\* main.rs:172-174: Git::new(cwd)? (which("git")), get_ref_as_commit(...)?, debug!.
GetRefAsCommit ==
  /\ pc = "get_ref_as_commit"
  /\ \/ /\ \E refExists \in BOOLEAN : commit' = get_ref_as_commit(refExists)
        /\ out' = out \cup {"debug: found git commit: {commit}"}
        /\ shown' = shown \cup {commit'}
        /\ pc' = "load"
        /\ UNCHANGED << outcome, errCause >>
     \/ /\ Fail("git")
        /\ UNCHANGED << commit, out, shown >>
  /\ UNCHANGED << file, file0, saved, loggedOut, cmd, auth, reads, writes,
                  loadResult, client, fetchResult, fetchAuth >>
  /\ UNCHANGED loginVars

\* Variant, not the code: AuthConfig::load()? returns the load error.
LoadCredentialOrAbort ==
  /\ pc = "load"
  /\ reads' = reads + 1
  /\ loadResult' = load(file)
  /\ IF load(file) = "Ok"
       THEN /\ auth' = toml_from_str(file.data)
            /\ client' = "token"
            /\ pc' = "get_github_repo"
            /\ UNCHANGED << out, shown, outcome, errCause >>
       ELSE /\ Fail("load")
            /\ UNCHANGED << auth, client, out, shown >>
  /\ UNCHANGED << file, file0, saved, loggedOut, cmd, writes, commit,
                  fetchResult, fetchAuth >>
  /\ UNCHANGED loginVars

\* Variant, not the code: a failed load is tried a second time.
LoadCredentialRereads ==
  /\ pc = "load"
  /\ reads' = reads + (IF load(file) = "Ok" THEN 1 ELSE 2)
  /\ loadResult' = load(file)
  /\ IF load(file) = "Ok"
       THEN /\ auth' = toml_from_str(file.data)
            /\ client' = "token"
            /\ UNCHANGED << out, shown >>
       ELSE /\ out' = out \cup {"debug: failed to load authentication config: {err}",
                                "debug: falling back to default octocrab instance"}
            /\ shown' = shown \cup {load_error_text(file)}
            /\ client' = "anonymous"
            /\ UNCHANGED auth
  /\ pc' = "get_github_repo"
  /\ UNCHANGED << file, file0, saved, loggedOut, cmd, outcome, errCause, writes,
                  commit, fetchResult, fetchAuth >>
  /\ UNCHANGED loginVars

\* main.rs:176-188: match AuthConfig::load().  Ok(auth): a client with the
\* user's access token.  Err(err): two debug lines and octocrab::instance().
LoadCredential ==
  /\ pc = "load"
  /\ reads' = reads + 1
  /\ loadResult' = load(file)
  /\ IF load(file) = "Ok"
       THEN /\ auth' = toml_from_str(file.data)
            /\ client' = "token"
            /\ UNCHANGED << out, shown >>
       ELSE /\ out' = out \cup {"debug: failed to load authentication config: {err}",
                                "debug: falling back to default octocrab instance"}
            /\ shown' = shown \cup {load_error_text(file)}
            /\ client' = "anonymous"
            /\ UNCHANGED auth
  /\ pc' = "get_github_repo"
  /\ UNCHANGED << file, file0, saved, loggedOut, cmd, outcome, errCause, writes,
                  commit, fetchResult, fetchAuth >>
  /\ UNCHANGED loginVars

\* main.rs:190: git.get_github_repo().await? (main.rs:122-138)
GetGithubRepo ==
  /\ pc = "get_github_repo"
  /\ \/ /\ pc' = "list_check_runs"
        /\ UNCHANGED << outcome, errCause >>
     \/ Fail("get_github_repo")
  /\ UNCHANGED << file, file0, saved, loggedOut, cmd, auth, reads, writes, out, shown >>
  /\ UNCHANGED loginVars
  /\ UNCHANGED runsVars

\* What list_check_runs_for_git_ref(...).send() may come back with: the runs, a
\* provider-reported error (octocrab::Error::GitHub) that is an authorization or
\* visibility rejection, one that is not, or any other octocrab::Error.
FetchResults == {"Ok", "GitHubUnauthorized", "GitHubOther", "Transport"}

\* Variant, not the code: every failed request counts as provider-reported.
IsAnyError(r) == r # "Ok"

\* matches!(err, octocrab::Error::GitHub { .. })  (main.rs:198)
IsGitHubError(r) == r \in {"GitHubUnauthorized", "GitHubOther"}

\* main.rs:192-203: the request, and map_err printing the login hint.
FetchRuns ==
  /\ pc = "list_check_runs"
  /\ fetchAuth' = client
  /\ \E r \in FetchResults :
       /\ fetchResult' = r
       /\ IF r = "Ok"
            THEN /\ pc' = "get_ref_as_name"
                 /\ UNCHANGED << outcome, errCause, out, shown >>
            ELSE /\ out' = IF IsGitHubError(r)
                             THEN out \cup {"Failed to fetch check runs. {login hint}"}
                             ELSE out
                 /\ UNCHANGED shown
                 /\ Fail("list_check_runs")
  /\ UNCHANGED << file, file0, saved, loggedOut, cmd, auth, reads, writes,
                  loadResult, client, commit >>
  /\ UNCHANGED loginVars

\* main.rs:205-207: get_ref_as_name(...)?, then Ok((runs, git_ref_name)).
GetRefAsName ==
  /\ pc = "get_ref_as_name"
  /\ \/ /\ pc' = "present"
        /\ UNCHANGED << outcome, errCause >>
     \/ Fail("git")
  /\ UNCHANGED << file, file0, saved, loggedOut, cmd, auth, reads, writes, out, shown >>
  /\ UNCHANGED loginVars
  /\ UNCHANGED runsVars

\* Status (main.rs:247) and Branch (main.rs:285): print_check_runs, Ok(()).
PrintCheckRuns ==
  /\ pc = "present"
  /\ cmd \in {"Status", "Branch"}
  /\ out' = out \cup {"Found {n} runs for {ref}"}
  /\ shown' = shown \cup CheckRunsText
  /\ ReturnOk
  /\ UNCHANGED << file, file0, saved, loggedOut, cmd, auth, reads, writes >>
  /\ UNCHANGED loginVars
  /\ UNCHANGED runsVars

\* Open (main.rs:251-271): the count, the picker, then the run's page is opened
\* in the browser, or one of the two notes is printed.
OpenRun ==
  /\ pc = "present"
  /\ cmd = "Open"
  /\ \/ /\ out' = out \cup {"Found {n} runs for {ref}"}
        /\ ReturnOk
     \/ /\ \E note \in {"No url found for run", "No run selected"} :
             out' = out \cup {"Found {n} runs for {ref}", note}
        /\ ReturnOk
     \/ /\ out' = out \cup {"Found {n} runs for {ref}"}
        /\ Fail("open")
  /\ shown' = shown \cup CheckRunsText
  /\ UNCHANGED << file, file0, saved, loggedOut, cmd, auth, reads, writes >>
  /\ UNCHANGED loginVars
  /\ UNCHANGED runsVars

Runs ==
  \/ BranchSelect
  \/ GetRefAsCommit
  \/ LoadCredential
  \/ GetGithubRepo
  \/ FetchRuns
  \/ GetRefAsName
  \/ PrintCheckRuns
  \/ OpenRun

----------------------------------------------------------------------------
\* The process is interrupted (killed, power loss): its memory is gone, the
\* file stays as it is at that moment.
Crash ==
  /\ outcome = "running"
  /\ pc' = "exit"
  /\ outcome' = "crashed"
  /\ errCause' = "none"
  /\ interval' = 0
  /\ poll_duration' = 0
  /\ polls' = 0
  /\ responses' = <<>>
  /\ sleeps' = <<>>
  /\ auth' = NoAuth
  /\ browser' = "untried"
  /\ loadResult' = "none"
  /\ client' = "none"
  /\ commit' = "none"
  /\ fetchResult' = "none"
  /\ fetchAuth' = "none"
  /\ reads' = 0
  /\ writes' = 0
  /\ out' = {}
  /\ shown' = {}
  /\ UNCHANGED << file, file0, saved, loggedOut, cmd >>

Step == Login \/ Logout \/ Runs

Next == Start \/ Step

Spec == Init /\ [][Next]_vars

NextCrash == Next \/ Crash

SpecCrash == Init /\ [][NextCrash]_vars

----------------------------------------------------------------------------
(* Properties                                                              *)

RECURSIVE Pow2(_)
Pow2(n) == IF n = 0 THEN 1 ELSE 2 * Pow2(n - 1)

Count(seq, S) == Cardinality({i \in 1..Len(seq) : seq[i] \in S})

Repeat(x, n) == [i \in 1..n |-> x]

Succeeded == Count(responses, {"Success"}) > 0

InLogin == cmd = "Login" /\ outcome = "running"

\* How many steps a login can still take, at most.
LoginRank ==
  CASE pc = "authenticate_as_device" -> RETRY_LIMIT + 4
    [] pc = "webbrowser_open"        -> RETRY_LIMIT + 3
    [] pc = "poll_once"              -> RETRY_LIMIT + 2 - polls
    [] pc = "fs_write"               -> 1
    [] OTHER                         -> 0

\* C1: whatever the provider answers, login polls the token endpoint at most
\* RETRY_LIMIT = 10 times and then terminates: the number of polls never
\* exceeds 10, a running login can always take a step, and every step of a
\* running login lowers a rank that starts at 14 and cannot go below 0.
C1_BoundedPolling ==
  /\ [](/\ polls <= RETRY_LIMIT
        /\ Len(responses) = polls
        /\ (InLogin => LoginRank > 0 /\ ENABLED Login))
  /\ [][InLogin => LoginRank' < LoginRank]_vars

C1_Witness ==
  /\ cmd = "Login"
  /\ pc = "exit"
  /\ outcome = "ok"
  /\ polls = RETRY_LIMIT
  /\ Count(responses, {"Pending"}) > 0
  /\ Count(responses, {"SlowDown"}) > 0
  /\ Count(responses, {"Error"}) > 0

ScriptC3 == << "Pending", "SlowDown", "Pending", "Success" >>

C4_TenErrors ==
  \A k \in 1..RETRY_LIMIT :
    (cmd = "Login" /\ responses = Repeat("Error", k)) =>
       /\ polls = k
       /\ sleeps = [i \in 1..k |-> interval * Pow2(i - 1)]
       /\ poll_duration = interval * Pow2(k)
       /\ writes = 0
       /\ file = file0
       /\ pc \in {"poll_once", "exit"}
       /\ k < RETRY_LIMIT => pc = "poll_once"
       /\ pc = "exit" => outcome = "ok"
       /\ pc = "poll_once" /\ k = RETRY_LIMIT =>
            ~ENABLED (PollPending \/ PollSlowDown \/ PollError \/ PollSuccess)

C4_Witness ==
  /\ cmd = "Login"
  /\ responses = Repeat("Error", RETRY_LIMIT)
  /\ pc = "exit"
  /\ outcome = "ok"
  /\ sleeps[RETRY_LIMIT] = 512 * interval

\* C5: when all 10 polls of a login return a non-success response, the
\* credential file is not written: it is what it was when login started
\* (the same content, or still absent), and the process ends Ok.
C5_ExhaustedLeavesFile ==
  (cmd = "Login" /\ polls = RETRY_LIMIT /\ ~Succeeded) =>
     /\ writes = 0
     /\ file = file0
     /\ pc \in {"poll_once", "exit"}
     /\ pc = "exit" => outcome = "ok" /\ errCause = "none"
     /\ "Successfully logged in!" \notin out

C5_Witness ==
  /\ cmd = "Login"
  /\ polls = RETRY_LIMIT
  /\ ~Succeeded
  /\ pc = "exit"
  /\ outcome = "ok"
  /\ load(file0) = "Ok"
  /\ file = file0
  /\ Count(responses, {"Pending"}) > 0
  /\ Count(responses, {"SlowDown"}) > 0
  /\ Count(responses, {"Error"}) > 0

\* C6 as stated: a browser that cannot be opened is not fatal to login: the
\* session goes on to the poll loop.
C6_BrowserFailureNonFatal ==
  (cmd = "Login" /\ browser = "failed") => outcome = "running"

\* C7: in status/open/branch a failed load of the credential (no file, or a
\* file that does not deserialize) does not abort: no error comes from the
\* load, the client is the anonymous one, the check-run request is sent with
\* it unless resolving the remote failed first, and the file is untouched.
C7_LoadFailureDegrades ==
  (cmd \in RunsCommands /\ loadResult \in {"NotFound", "Corrupt"}) =>
     /\ errCause # "load"
     /\ client = "anonymous"
     /\ file = file0
     /\ writes = 0
     /\ fetchAuth \in {"none", "anonymous"}
     /\ pc = "exit" /\ errCause # "get_github_repo" =>
          fetchAuth = "anonymous" /\ fetchResult # "none"

C7_Witness ==
  /\ cmd \in RunsCommands
  /\ loadResult = "Corrupt"
  /\ file.exists
  /\ fetchAuth = "anonymous"
  /\ fetchResult = "Ok"
  /\ outcome = "ok"

\* C8 as stated: whenever a login has ended, interrupted or not, the file is
\* either what it was before that login or a complete credential.
C8_SaveAtomic ==
  (cmd = "Login" /\ pc = "exit") => (file = file0 \/ load(file) = "Ok")

\* C9: a credential saved by a successful login is what load gives back, in
\* all three fields, at the end of that login and in a later invocation,
\* whatever the file held before the save.
C9_RoundTrip ==
  /\ (cmd = "Login" /\ Succeeded /\ pc = "exit") =>
        /\ load(file) = "Ok"
        /\ loadValue(file).access_token = auth.access_token
        /\ loadValue(file).token_type = auth.token_type
        /\ loadValue(file).scope = auth.scope
        /\ saved = auth
  /\ (cmd \in RunsCommands /\ loadResult # "none" /\ saved # NoAuth) =>
        /\ loadResult = "Ok"
        /\ auth.access_token = saved.access_token
        /\ auth.token_type = saved.token_type
        /\ auth.scope = saved.scope
        /\ client = "token"

C9_Witness ==
  /\ cmd \in RunsCommands
  /\ loadResult = "Ok"
  /\ saved \in OAuth
  /\ auth = saved
  /\ auth.scope = << "repo", "gist" >>

\* C10: after a logout has removed a credential that login had saved, and
\* until a login writes the file again, there is no file, load fails with
\* NotFound, and status/open/branch use anonymous access.
C10_LogoutThenNotFound ==
  loggedOut =>
     /\ ~file.exists
     /\ load(file) = "NotFound"
     /\ (cmd \in RunsCommands /\ loadResult # "none") =>
          loadResult = "NotFound" /\ client = "anonymous"
     /\ (cmd \in RunsCommands /\ fetchAuth # "none") => fetchAuth = "anonymous"

C10_Witness ==
  /\ loggedOut
  /\ cmd \in RunsCommands
  /\ loadResult = "NotFound"
  /\ fetchAuth = "anonymous"
  /\ fetchResult = "Ok"


\* C11: a logout that finds no credential file ends with an error: main
\* returns the Err of remove_file, "Successfully logged out" is not printed,
\* and there is still no file.
C11_LogoutWithoutFile ==
  (cmd = "Logout" /\ ~file0.exists) =>
     /\ ~file.exists
     /\ "Successfully logged out" \notin out
     /\ outcome \in {"running", "err"}
     /\ pc = "exit" => outcome = "err" /\ errCause = "remove_file"

C11_Witness ==
  /\ cmd = "Logout"
  /\ ~file0.exists
  /\ pc = "exit"
  /\ outcome = "err"
  /\ ~file.exists

\* C12 as stated: for a ref that does not exist (git prints no commit) the
\* operation aborts with an error before a check-run request is sent.
C12_MissingRefAborts ==
  (cmd \in RunsCommands /\ commit = "") =>
     /\ fetchAuth = "none"
     /\ fetchResult = "none"
     /\ pc = "exit" => outcome = "err"

LoginHint == "Failed to fetch check runs. {login hint}"

\* C13 as stated: a failed fetch is returned as an error, and the login
\* guidance is shown exactly when the failure is an authorization or
\* visibility rejection reported by the provider.
C13_AsStated ==
  (cmd \in RunsCommands /\ fetchResult \notin {"none", "Ok"}) =>
     /\ outcome = "err"
     /\ LoginHint \in out <=> fetchResult = "GitHubUnauthorized"

\* C13, amended: when the check-run fetch fails with a provider-reported
\* error (an authorization or visibility rejection, or any other error the
\* provider reports) the login guidance is shown and the error is still
\* returned to the caller; for a failure that is not provider-reported the
\* guidance is not shown, and the error is returned as well.
C13_HintOnProviderError ==
  /\ (cmd \in RunsCommands /\ fetchResult \notin {"none", "Ok"}) =>
        /\ pc = "exit"
        /\ outcome = "err"
        /\ errCause = "list_check_runs"
        /\ LoginHint \in out <=> IsGitHubError(fetchResult)
        /\ fetchResult = "GitHubUnauthorized" => LoginHint \in out
        /\ fetchResult = "Transport" => LoginHint \notin out
  /\ (cmd \in RunsCommands /\ fetchResult \in {"none", "Ok"}) =>
        LoginHint \notin out

C13_Witness ==
  /\ cmd \in RunsCommands
  /\ fetchResult = "GitHubUnauthorized"
  /\ LoginHint \in out
  /\ pc = "exit"
  /\ outcome = "err"


\* The access tokens there are: those the provider issues, the one in hand,
\* and whatever github.toml holds under access_token.
AccessTokens ==
  {c.access_token : c \in OAuth}
    \cup {auth.access_token, saved.access_token}
    \cup {file.data[i].val[1] : i \in LinesOf(file.data, "access_token")}
    \cup {file0.data[i].val[1] : i \in LinesOf(file0.data, "access_token")}

Sleepers == {"Pending", "Error"}

Doublers == {"SlowDown", "Error"}

SleepIndex(p) == Count(SubSeq(responses, 1, p), Sleepers)

\* poll_duration as it was when response p came in.
DurationAt(p) == interval * Pow2(Count(SubSeq(responses, 1, p - 1), Doublers))

\* C15: on an error response the loop reports the error, sleeps the current
\* poll_duration, then doubles poll_duration and goes on with the next
\* iteration: the step ends in the loop, not in a return.  A login that got
\* an error and no success has ended only after all 10 attempts, and Ok.
C15_ErrorContinues ==
  /\ [][responses' = Append(responses, "Error") =>
          /\ {"Error: {err}", "Retrying in {n} seconds"} \subseteq out'
          /\ {PollErrorText, ToString(poll_duration)} \subseteq shown'
          /\ sleeps' = Append(sleeps, poll_duration)
          /\ poll_duration' = 2 * poll_duration
          /\ polls' = polls + 1
          /\ pc' = "poll_once"
          /\ outcome' = "running"
          /\ file' = file]_vars
  /\ []((cmd = "Login" /\ pc = "exit" /\ ~Succeeded
           /\ Count(responses, {"Error"}) > 0) =>
          /\ polls = RETRY_LIMIT
          /\ outcome = "ok")
  /\ []((cmd = "Login" /\ pc = "poll_once" /\ polls < RETRY_LIMIT
           /\ Count(responses, {"Error"}) > 0) =>
          ENABLED (PollPending \/ PollSlowDown \/ PollError \/ PollSuccess))

C15_Witness ==
  /\ cmd = "Login"
  /\ responses = << "Pending", "Error", "Error" >>
  /\ sleeps = << interval, interval, 2 * interval >>
  /\ poll_duration = 4 * interval
  /\ pc = "poll_once"
  /\ "Error: {err}" \in out

\* C16: on a slow-down response the loop doubles poll_duration and does not
\* sleep in that iteration, so the next poll follows with no wait; there is
\* one sleep per pending or error response and no other, and each lasts what
\* poll_duration was when that response came in, so a doubled interval is
\* first slept by a later pending or error iteration.
C16_SlowDownNoSleep ==
  /\ [][responses' = Append(responses, "SlowDown") =>
          /\ sleeps' = sleeps
          /\ poll_duration' = 2 * poll_duration
          /\ polls' = polls + 1
          /\ pc' = "poll_once"
          /\ out' = out]_vars
  /\ [](cmd = "Login" =>
          /\ Len(sleeps) = Count(responses, Sleepers)
          /\ \A p \in 1..Len(responses) :
               responses[p] \in Sleepers =>
                  sleeps[SleepIndex(p)] = DurationAt(p))

C16_Witness ==
  /\ cmd = "Login"
  /\ responses = << "SlowDown", "SlowDown", "Pending" >>
  /\ sleeps = << 4 * interval >>
  /\ pc = "poll_once"

\* C17: on an authorization-pending response the loop sleeps exactly the
\* current poll_duration and leaves poll_duration as it is, so consecutive
\* pending responses sleep the same duration each time.
C17_PendingKeepsDuration ==
  /\ [][responses' = Append(responses, "Pending") =>
          /\ sleeps' = Append(sleeps, poll_duration)
          /\ poll_duration' = poll_duration
          /\ polls' = polls + 1
          /\ pc' = "poll_once"
          /\ out' = out]_vars
  /\ [](cmd = "Login" =>
          \A p \in 1..(Len(responses) - 1) :
             (responses[p] = "Pending" /\ responses[p + 1] = "Pending") =>
                sleeps[SleepIndex(p + 1)] = sleeps[SleepIndex(p)])

C17_Witness ==
  /\ cmd = "Login"
  /\ responses = << "Error", "Pending", "Pending", "Pending" >>
  /\ sleeps = << interval, 2 * interval, 2 * interval, 2 * interval >>
  /\ poll_duration = 2 * interval

\* C18: in one invocation, whatever the subcommand and whatever comes back
\* from outside, the credential file is read at most once and written at most
\* once; only status/open/branch read it and only login writes it.
C18_OneReadOneWrite ==
  /\ reads <= 1
  /\ writes <= 1
  /\ reads = 1 => cmd \in RunsCommands /\ loadResult # "none"
  /\ writes = 1 => cmd = "Login" /\ Succeeded
  /\ cmd \in RunsCommands /\ loadResult # "none" => reads = 1

C18_Witness ==
  /\ cmd = "Open"
  /\ reads = 1
  /\ writes = 0
  /\ loadResult = "Corrupt"
  /\ fetchResult = "Transport"
  /\ pc = "exit"

\* C19: in the login loop poll_duration is the advertised interval I times
\* 2^k, k the number of slow-down and error responses so far; so it never
\* decreases, every sleep lasts I*2^j for some j <= 9, and poll_duration is
\* never more than I*2^10.
C19_DurationInvariant ==
  /\ []((cmd = "Login" /\ browser = "opened") =>
          /\ poll_duration = interval * Pow2(Count(responses, Doublers))
          /\ poll_duration <= interval * Pow2(RETRY_LIMIT)
          /\ \A i \in 1..Len(sleeps) :
               \E j \in 0..(RETRY_LIMIT - 1) : sleeps[i] = interval * Pow2(j))
  /\ [][(cmd = "Login" /\ pc # "exit") => poll_duration' >= poll_duration]_vars

C19_Witness ==
  /\ cmd = "Login"
  /\ browser = "opened"
  /\ Count(responses, {"SlowDown"}) = 4
  /\ Count(responses, {"Error"}) = 6
  /\ responses[RETRY_LIMIT] = "Error"
  /\ poll_duration = interval * 1024
  /\ sleeps[Len(sleeps)] = interval * 512

\* Where the first success is among the responses, RETRY_LIMIT + 1 if nowhere.
FirstSuccess ==
  IF Succeeded
    THEN CHOOSE p \in 1..Len(responses) :
           /\ responses[p] = "Success"
           /\ \A q \in 1..(p - 1) : responses[q] # "Success"
    ELSE RETRY_LIMIT + 1

Min(a, b) == IF a <= b THEN a ELSE b

====
